---- MODULE Spec2Model ----
(***************************************************************************)
(* Model of Preprocessing.ipynb: the notebook that compacts the reviews    *)
(* corpus, samples a user cohort, filters the reviews to the cohort,       *)
(* reduces the metadata corpus to the sampled products and drops metadata  *)
(* records without categories or title.                                    *)
(*                                                                         *)
(* One action per notebook cell.  A run is "Restart kernel and run all":   *)
(* the cells execute top to bottom and the run halts at the first cell     *)
(* that raises.  Between runs the caller may delete artifacts.             *)
(***************************************************************************)
EXTENDS Integers, Sequences, FiniteSets, TLC

VARIABLES
    kcore_5_json,            \* dataset/kcore_5.json: the lines of the reviews corpus
    metadata_json,           \* dataset/metadata.json: the lines of the metadata corpus
    CHUNK_SIZE,              \* configuration cell
    USER_SAMPLES,            \* configuration cell
    compact_csv,             \* dataset/kcore_5_compact.csv         [exists, rows]
    sample_csv,              \* dataset/kcore_5_compact_sample.csv  [exists, rows]
    metadata_csv,            \* dataset/metadata_sample.csv         [exists, rows]
    pc,                      \* the cell the run is about to execute
    err,                     \* the exception that halted the run ("" when none)
    rng,                     \* state of numpy's global generator
    kcore_5_compact,         \* kernel variable (DataFrame rows)
    cohort,                  \* unique_users[user_sample], in drawn order
    kcore_5_compact_sample,  \* kernel variable (DataFrame rows)
    meta,                    \* kernel variable (DataFrame rows)
    ran,                     \* the stages whose body started (was not skipped) in this run
    finished,                \* the stages whose body ran to its end in this run
    metaFinal,               \* the metadata artifact is as a QualityFilter wrote it
    draws                    \* the executions of the sampling body so far, over all runs

inputs  == <<kcore_5_json, metadata_json, CHUNK_SIZE, USER_SAMPLES>>
files   == <<compact_csv, sample_csv, metadata_csv>>
kernel  == <<rng, kcore_5_compact, cohort, kcore_5_compact_sample, meta>>
history == <<metaFinal, draws>>
vars    == <<inputs, files, kernel, pc, err, ran, finished, history>>

-----------------------------------------------------------------------------
(* Bounds of the model *)

MaxReviews == 3
MaxMeta == 3
MaxChunk == 2
MaxSamples == 2

-----------------------------------------------------------------------------
(* Values *)

\* a key that a parsed record does not carry
Absent == "<absent>"
\* pandas' missing value
NaN == "<NaN>"

\* np.random.seed(47)
SEED == 47

NoFile == [exists |-> FALSE, rows |-> <<>>]
File(rows) == [exists |-> TRUE, rows |-> rows]

Min(a, b) == IF a < b THEN a ELSE b

Range(s) == {s[i] : i \in 1..Len(s)}

SeqsUpTo(S, n) == UNION {[1..k -> S] : k \in 0..n}

-----------------------------------------------------------------------------
(* The reviews corpus *)

ReviewLine(u, p, o, n) ==
    [valid |-> TRUE, reviewerID |-> u, asin |-> p, overall |-> o, reviewerName |-> n]

\* a line read_json cannot parse
BadReviewLine ==
    [valid |-> FALSE, reviewerID |-> "", asin |-> "", overall |-> 0, reviewerName |-> Absent]

\* reviewerName stands for the six columns the compaction cell drops
ReviewLines ==
    { ReviewLine("u1", "p1", 5, "n"),
      ReviewLine("u2", "p2", 4, "n"),
      ReviewLine("u3", "p1", 3, "n"),
      ReviewLine("u1", "p2", 2, Absent),
      BadReviewLine }

\* chunk.drop(columns=[...]) followed by the row written by to_csv
CompactRow(line) ==
    [reviewerID |-> line.reviewerID, asin |-> line.asin, overall |-> line.overall]

CompactRows(lines) == [i \in 1..Len(lines) |-> CompactRow(lines[i])]

\* (variant) a chunk that runs one line into the next chunk
ChunkAtOverlapping(lines, from, size) == SubSeq(lines, from, Min(from + size, Len(lines)))

\* the chunk that starts at line `from` of the stream
ChunkAt(lines, from, size) == SubSeq(lines, from, Min(from + size - 1, Len(lines)))

\* pd.read_json(lines=True, chunksize=...) raises on a chunk with a malformed line
ChunkParses(chunk) == \A i \in 1..Len(chunk) : chunk[i].valid

\* DataFrame.drop raises KeyError when a listed column is in no record of the chunk
DropSucceeds(chunk) == \E i \in 1..Len(chunk) : chunk[i].reviewerName # Absent

RECURSIVE CompactFrom(_, _, _, _)
\* the loop of the compaction cell from line `from` on, `file` being the artifact so far
CompactFrom(lines, from, size, file) ==
    IF from > Len(lines) THEN [file |-> file, err |-> ""]
    ELSE LET chunk == ChunkAt(lines, from, size) IN
         IF ~ChunkParses(chunk) THEN [file |-> file, err |-> "ValueError"]
         ELSE IF ~DropSucceeds(chunk) THEN [file |-> file, err |-> "KeyError"]
         ELSE CompactFrom(lines, from + size, size,
                          File(file.rows \o CompactRows(chunk)))

-----------------------------------------------------------------------------
(* read_csv of the two review artifacts.  Reviewer and product identifiers   *)
(* are alphanumeric identifiers and ratings are integers, which read_csv     *)
(* returns as to_csv wrote them.                                             *)

ReadReviewsCsv(file) == file.rows

RECURSIVE Unique(_)
\* Series.unique(): the distinct values in order of first appearance
Unique(s) ==
    IF s = <<>> THEN <<>>
    ELSE LET rest == Unique(SubSeq(s, 1, Len(s) - 1)) IN
         IF s[Len(s)] \in Range(rest) THEN rest ELSE Append(rest, s[Len(s)])

Column(df, name) == [i \in 1..Len(df) |-> df[i][name]]

-----------------------------------------------------------------------------
(* numpy's global generator.  The Mersenne Twister is abstracted as a        *)
(* full-period congruential generator: what matters to the notebook is that  *)
(* every draw is a function of the state and advances it.                    *)

RngStates == 0..15

\* the generator before np.random.seed: seeded from the system's entropy, so a
\* draw from it starts from any state
Unseeded == -1

SeedOf(s) == IF s = Unseeded THEN RngStates ELSE {s}

\* np.random.seed(seed)
SeedState(seed) == seed % 16

\* one step of the generator
NextRng(s) == (5 * s + 3) % 16

\* rk_interval(max, state): a draw in 0..max
Interval(max, s) == NextRng(s) % (max + 1)

Swap(arr, i, j) == [arr EXCEPT ![i] = arr[j], ![j] = arr[i]]

RECURSIVE Shuffle(_, _, _)
\* RandomState.shuffle: for i in reversed(range(1, n)): j = rk_interval(i); swap
\* (positions are 1-based here, so position i is index i - 1)
Shuffle(arr, i, s) ==
    IF i < 2 THEN [arr |-> arr, rng |-> s]
    ELSE Shuffle(Swap(arr, i, 1 + Interval(i - 1, s)), i - 1, NextRng(s))

\* RandomState.permutation(n) over the positions 1..n
Permutation(n, s) == Shuffle([i \in 1..n |-> i], n, s)

\* (variant) np.random.choice(n, size, replace=True): independent draws
ChoiceWithReplacement(n, size, s) ==
    IF size > n THEN [ok |-> FALSE, idx |-> <<>>, rng |-> s]
    ELSE [ok |-> TRUE, idx |-> [i \in 1..size |-> 1 + Interval(n - 1, s)], rng |-> NextRng(s)]

\* (variant) a sampler that draws the whole population when it is short
ChoiceClamped(n, size, s) ==
    [ok |-> TRUE, idx |-> SubSeq(Permutation(n, s).arr, 1, Min(size, n)),
     rng |-> Permutation(n, s).rng]

\* np.random.choice(n, size, replace=False)
Choice(n, size, s) ==
    IF size > n THEN [ok |-> FALSE, idx |-> <<>>, rng |-> s]
    ELSE LET p == Permutation(n, s) IN
         [ok |-> TRUE, idx |-> SubSeq(p.arr, 1, size), rng |-> p.rng]

RECURSIVE RowsAt(_, _, _)
\* the rows of df at the positions in keep, from position i on
RowsAt(df, i, keep) ==
    IF i > Len(df) THEN <<>>
    ELSE (IF i \in keep THEN <<df[i]>> ELSE <<>>) \o RowsAt(df, i + 1, keep)

\* (variant) a filter that keeps one row per user (drop_duplicates on reviewerID)
ReviewFilterFirstPerUser(df, users) ==
    RowsAt(df, 1, {i \in 1..Len(df) :
                     /\ df[i].reviewerID \in users
                     /\ \A j \in 1..(i - 1) : df[j].reviewerID # df[i].reviewerID})

\* kcore_5_compact[kcore_5_compact['reviewerID'].isin(users)]
ReviewFilter(df, users) == SelectSeq(df, LAMBDA row : row.reviewerID \in users)

-----------------------------------------------------------------------------
(* The metadata corpus *)

MetaLine(a, c, t, d, r, b) ==
    [valid |-> TRUE, asin |-> a, categories |-> c, title |-> t,
     description |-> d, related |-> r, brand |-> b]

\* a line ast.literal_eval cannot parse
BadMetaLine ==
    [valid |-> FALSE, asin |-> "", categories |-> Absent, title |-> Absent,
     description |-> Absent, related |-> Absent, brand |-> Absent]

\* brand stands for the four keys the metadata cell pops
MetaLines ==
    { MetaLine("p1", "c", "t1", "d", "r", "b"),
      MetaLine("p2", "c", Absent, "d", "r", Absent),
      MetaLine("p1", Absent, "t2", "d", "r", "b"),
      MetaLine("p2", "c", "N/A", Absent, "r", "b"),
      MetaLine("p3", "c", "t3", "d", "r", "b"),
      BadMetaLine }

MetaColumns == <<"asin", "categories", "title", "description", "related">>

\* line.pop(key, None) for the dropped keys
PopDropped(line) == [f \in Range(MetaColumns) |-> line[f]]

\* DataFrame.from_dict(data): a key a record lacks is NaN in its row
FrameRow(rec) == [f \in Range(MetaColumns) |-> IF rec[f] = Absent THEN NaN ELSE rec[f]]

\* a column exists in the frame when some record of the buffer carries the key
HasColumn(data, f) == \E i \in 1..Len(data) : data[i][f] # Absent

\* the strings read_csv takes for a missing value (the empty field among them)
NaTokens == {"", "N/A"}

\* to_csv writes a missing value as the empty field
ToCsvRow(row) == [f \in DOMAIN row |-> IF row[f] = NaN THEN "" ELSE row[f]]
ToCsv(df) == [i \in 1..Len(df) |-> ToCsvRow(df[i])]

\* read_csv(names=[...]) of the metadata artifact
ReadCsvRow(line) == [f \in DOMAIN line |-> IF line[f] \in NaTokens THEN NaN ELSE line[f]]
ReadMetaCsv(file) == [i \in 1..Len(file.rows) |-> ReadCsvRow(file.rows[i])]

\* the body of `if len(data) == CHUNK_SIZE`: filter, project, append
FlushChunk(data, asins, file) ==
    IF \E f \in Range(MetaColumns) : ~HasColumn(data, f)
    THEN [file |-> file, err |-> "KeyError"]
    ELSE LET frame == [i \in 1..Len(data) |-> FrameRow(data[i])]
             chunk == SelectSeq(frame, LAMBDA row : row.asin \in asins)
         IN  [file |-> File(file.rows \o ToCsv(chunk)), err |-> ""]

RECURSIVE MetaFromPerLine(_, _, _, _, _, _)
\* (variant) a loop that appends every record as soon as it is parsed
MetaFromPerLine(lines, pos, size, data, asins, file) ==
    IF pos > Len(lines) THEN [file |-> file, err |-> ""]
    ELSE IF ~lines[pos].valid THEN [file |-> file, err |-> "SyntaxError"]
    ELSE LET out == FlushChunk(<<PopDropped(lines[pos])>>, asins, file) IN
         IF out.err # "" THEN out
         ELSE MetaFromPerLine(lines, pos + 1, size, data, asins, out.file)

RECURSIVE MetaFrom(_, _, _, _, _, _)
\* the loop of the metadata cell from line `pos` on, with buffer `data`
MetaFrom(lines, pos, size, data, asins, file) ==
    IF pos > Len(lines) THEN [file |-> file, err |-> ""]
    ELSE IF ~lines[pos].valid THEN [file |-> file, err |-> "SyntaxError"]
    ELSE LET buf == Append(data, PopDropped(lines[pos])) IN
         IF Len(buf) = size
         THEN LET out == FlushChunk(buf, asins, file) IN
              IF out.err # "" THEN out
              ELSE MetaFrom(lines, pos + 1, size, <<>>, asins, out.file)
         ELSE MetaFrom(lines, pos + 1, size, buf, asins, file)

\* (variant) dropna(how='all'): a record goes only when both are missing
DropnaAll(df) == SelectSeq(df, LAMBDA row : row.categories # NaN \/ row.title # NaN)

\* meta.dropna(axis=0, subset=('categories', 'title'))
Dropna(df) == SelectSeq(df, LAMBDA row : row.categories # NaN /\ row.title # NaN)

-----------------------------------------------------------------------------
(* The bodies of the stages, as functions of what they read *)

\* the body of the compaction cell: to_csv(mode='a') onto the artifact
Compactor(lines, size, file) == CompactFrom(lines, 1, size, file)

\* (variant) a compaction loop that draws from the global generator
RngAfterDrawingCompaction(s) == NextRng(s)

\* the generator state the compaction loop leaves (it draws nothing)
RngAfterCompaction(s) == s

\* the body of the sampling cell up to the filter: UserSampler and ReviewFilter
Sampler(df, n, s) ==
    LET unique_users == Unique(Column(df, "reviewerID"))
        draw == Choice(Len(unique_users), n, s)
        users == [i \in 1..Len(draw.idx) |-> unique_users[draw.idx[i]]]
    IN  [ok |-> draw.ok, rng |-> draw.rng, users |-> users,
         sample |-> ReviewFilter(df, Range(users))]

\* the body of the metadata cell: to_csv(mode='a') onto the artifact
MetadataJoinFilter(lines, size, sample, file) ==
    MetaFrom(lines, 1, size, <<>>, Range(Column(sample, "asin")), file)

\* the reload and dropna cells: the artifact QualityFilter writes over `file`
QualityFilter(file) == File(ToCsv(Dropna(ReadMetaCsv(file))))

\* (variants) a cell without its guard
CompactGuardOff == FALSE
CompactGuardChecksLength == compact_csv.exists /\ Len(compact_csv.rows) = Len(kcore_5_json)
SampleGuardOff == FALSE
MetadataGuardOff == FALSE

\* os.path.exists guards of the three cells
CompactExists == compact_csv.exists
SampleExists == sample_csv.exists
MetadataExists == metadata_csv.exists

-----------------------------------------------------------------------------
(* The inputs of a run.  The metadata stages read the reviews only through   *)
(* the products of the sampled reviews, and the review stages never read the *)
(* metadata, so the corpora vary one at a time against reference corpora of  *)
(* the other kind (which yield every product set the metadata cell can be    *)
(* given).                                                                   *)

ReferenceReviews ==
    { <<ReviewLine("u1", "p1", 5, "n"), ReviewLine("u2", "p2", 4, "n"),
        ReviewLine("u3", "p1", 3, "n")>> }

ReferenceMeta ==
    { <<MetaLine("p1", "c", "t1", "d", "r", "b"), MetaLine("p2", "c", Absent, "d", "r", Absent),
        MetaLine("p3", "c", "t3", "d", "r", "b")>> }

Init ==
    /\ kcore_5_json \in SeqsUpTo(ReviewLines, MaxReviews)
    /\ metadata_json \in SeqsUpTo(MetaLines, MaxMeta)
    /\ kcore_5_json \in ReferenceReviews \/ metadata_json \in ReferenceMeta
    /\ CHUNK_SIZE \in 1..MaxChunk
    /\ USER_SAMPLES \in 1..MaxSamples
    /\ compact_csv = NoFile
    /\ sample_csv = NoFile
    /\ metadata_csv = NoFile
    /\ pc = "import"
    /\ err = ""
    /\ rng = Unseeded
    /\ kcore_5_compact = <<>>
    /\ cohort = <<>>
    /\ kcore_5_compact_sample = <<>>
    /\ meta = <<>>
    /\ ran = {}
    /\ finished = {}
    /\ metaFinal = FALSE
    /\ draws = {}

Raise(e) == pc' = "error" /\ err' = e

\* the import cell: numpy's global generator starts from the system's entropy
ImportCell ==
    /\ pc = "import"
    /\ rng' = Unseeded
    /\ pc' = "seed"
    /\ UNCHANGED <<inputs, files, kcore_5_compact, cohort, kcore_5_compact_sample, meta,
                   err, ran, finished, history>>

\* np.random.seed(47)
SeedCell ==
    /\ pc = "seed"
    /\ rng' = SeedState(SEED)
    /\ pc' = "compact"
    /\ UNCHANGED <<inputs, files, kcore_5_compact, cohort, kcore_5_compact_sample, meta,
                   err, ran, finished, history>>

\* the compaction cell
CompactCell ==
    /\ pc = "compact"
    /\ IF CompactExists
       THEN /\ pc' = "load_compact"
            /\ UNCHANGED <<compact_csv, err, ran, finished, rng>>
       ELSE LET out == Compactor(kcore_5_json, CHUNK_SIZE, compact_csv) IN
            /\ compact_csv' = out.file
            /\ ran' = ran \cup {"compact"}
            /\ rng' = RngAfterCompaction(rng)
            /\ IF out.err # ""
               THEN Raise(out.err) /\ UNCHANGED finished
               ELSE pc' = "load_compact" /\ err' = err /\ finished' = finished \cup {"compact"}
    /\ UNCHANGED <<inputs, sample_csv, metadata_csv, kcore_5_compact, cohort,
                   kcore_5_compact_sample, meta, history>>

\* kcore_5_compact = pd.read_csv('dataset/kcore_5_compact.csv', ...)
LoadCompactCell ==
    /\ pc = "load_compact"
    /\ IF compact_csv.exists
       THEN /\ kcore_5_compact' = ReadReviewsCsv(compact_csv)
            /\ pc' = "sample" /\ err' = err
       ELSE /\ Raise("FileNotFoundError")
            /\ UNCHANGED kcore_5_compact
    /\ UNCHANGED <<inputs, files, rng, cohort, kcore_5_compact_sample, meta,
                   ran, finished, history>>

\* the sampling cell: UserSampler and ReviewFilter
SampleCell ==
    /\ pc = "sample"
    /\ IF SampleExists
       THEN /\ pc' = "load_sample"
            /\ UNCHANGED <<sample_csv, rng, cohort, kcore_5_compact_sample, err, ran,
                           finished, draws>>
       ELSE \E s \in SeedOf(rng) :
            LET out == Sampler(kcore_5_compact, USER_SAMPLES, s) IN
                /\ ran' = ran \cup {"sample"}
                /\ rng' = out.rng
                /\ IF ~out.ok
                   THEN /\ Raise("ValueError")
                        /\ UNCHANGED <<sample_csv, cohort, kcore_5_compact_sample,
                                       finished, draws>>
                   ELSE /\ cohort' = out.users
                        /\ kcore_5_compact_sample' = out.sample
                        /\ sample_csv' = File(sample_csv.rows \o out.sample)
                        /\ draws' = draws \cup {[corpus |-> kcore_5_compact,
                                                   compacted |-> "compact" \in ran,
                                                   cohort |-> out.users]}
                        /\ finished' = finished \cup {"sample"}
                        /\ pc' = "load_sample" /\ err' = err
    /\ UNCHANGED <<inputs, compact_csv, metadata_csv, kcore_5_compact, meta, metaFinal>>

\* kcore_5_compact_sample = pd.read_csv('dataset/kcore_5_compact_sample.csv', ...)
LoadSampleCell ==
    /\ pc = "load_sample"
    /\ IF sample_csv.exists
       THEN /\ kcore_5_compact_sample' = ReadReviewsCsv(sample_csv)
            /\ pc' = "metadata" /\ err' = err
       ELSE /\ Raise("FileNotFoundError")
            /\ UNCHANGED kcore_5_compact_sample
    /\ UNCHANGED <<inputs, files, rng, kcore_5_compact, cohort, meta, ran, finished, history>>

\* the metadata cell: MetadataJoinFilter
MetadataCell ==
    /\ pc = "metadata"
    /\ IF MetadataExists
       THEN /\ pc' = "load_meta"
            /\ UNCHANGED <<metadata_csv, err, ran, finished, metaFinal>>
       ELSE LET out == MetadataJoinFilter(metadata_json, CHUNK_SIZE,
                                          kcore_5_compact_sample, metadata_csv) IN
            /\ metadata_csv' = out.file
            /\ ran' = ran \cup {"metadata"}
            /\ metaFinal' = FALSE
            /\ IF out.err # ""
               THEN Raise(out.err) /\ UNCHANGED finished
               ELSE pc' = "load_meta" /\ err' = err /\ finished' = finished \cup {"metadata"}
    /\ UNCHANGED <<inputs, compact_csv, sample_csv, kernel, draws>>

\* meta = pd.read_csv('dataset/metadata_sample.csv', names=[...])
LoadMetaCell ==
    /\ pc = "load_meta"
    /\ IF metadata_csv.exists
       THEN /\ meta' = ReadMetaCsv(metadata_csv)
            /\ pc' = "dropna" /\ err' = err
       ELSE /\ Raise("FileNotFoundError")
            /\ UNCHANGED meta
    /\ UNCHANGED <<inputs, files, rng, kcore_5_compact, cohort, kcore_5_compact_sample,
                   ran, finished, history>>

\* the dropna cell: QualityFilter overwrites the artifact (the cells after it only display)
DropnaCell ==
    /\ pc = "dropna"
    /\ meta' = Dropna(meta)
    /\ metadata_csv' = File(ToCsv(Dropna(meta)))
    /\ metaFinal' = TRUE
    /\ ran' = ran \cup {"dropna"}
    /\ finished' = finished \cup {"dropna"}
    /\ pc' = "done"
    /\ UNCHANGED <<inputs, compact_csv, sample_csv, rng, kcore_5_compact, cohort,
                   kcore_5_compact_sample, err, draws>>

-----------------------------------------------------------------------------
(* The caller.  Artifacts are deleted between runs: after the kernel restart  *)
(* and before the first cell executes.                                       *)

Halted == pc \in {"done", "error", "stopped"}

\* the cells at which a stage begins: interrupting there stops at a stage boundary
StageBoundaries == {"load_compact", "metadata", "load_meta"}

\* the caller interrupts the run between two stages
Stop ==
    /\ pc \in StageBoundaries
    /\ pc' = "stopped"
    /\ UNCHANGED <<inputs, files, kernel, err, ran, finished, history>>

\* "Restart kernel and run all"
Restart ==
    /\ Halted
    /\ pc' = "import"
    /\ err' = ""
    /\ rng' = Unseeded
    /\ kcore_5_compact' = <<>>
    /\ cohort' = <<>>
    /\ kcore_5_compact_sample' = <<>>
    /\ meta' = <<>>
    /\ ran' = {}
    /\ finished' = {}
    /\ UNCHANGED <<inputs, files, history>>

DeleteCompact ==
    /\ pc = "import"
    /\ compact_csv.exists
    /\ compact_csv' = NoFile
    /\ UNCHANGED <<inputs, sample_csv, metadata_csv, kernel, pc, err, ran, finished, history>>

DeleteSample ==
    /\ pc = "import"
    /\ sample_csv.exists
    /\ sample_csv' = NoFile
    /\ UNCHANGED <<inputs, compact_csv, metadata_csv, kernel, pc, err, ran, finished, history>>

DeleteMeta ==
    /\ pc = "import"
    /\ metadata_csv.exists
    /\ metadata_csv' = NoFile
    /\ metaFinal' = FALSE
    /\ UNCHANGED <<inputs, compact_csv, sample_csv, kernel, pc, err, ran, finished,
                   draws>>

\* a run from no artifacts with chunk size `size`: the cells top to bottom
FreshRun(size) ==
    LET c == Compactor(kcore_5_json, size, NoFile)
        d == Sampler(ReadReviewsCsv(c.file), USER_SAMPLES, RngAfterCompaction(SeedState(SEED)))
        m == MetadataJoinFilter(metadata_json, size, ReadReviewsCsv(File(d.sample)), NoFile)
    IN  [complete |-> c.err = "" /\ c.file.exists /\ d.ok /\ m.err = "" /\ m.file.exists,
         compact |-> c.file, sample |-> File(d.sample), metadata |-> QualityFilter(m.file)]

Next ==
    \/ ImportCell
    \/ SeedCell
    \/ CompactCell
    \/ LoadCompactCell
    \/ SampleCell
    \/ LoadSampleCell
    \/ MetadataCell
    \/ LoadMetaCell
    \/ DropnaCell
    \/ Stop
    \/ Restart
    \/ DeleteCompact
    \/ DeleteSample
    \/ DeleteMeta

Spec == Init /\ [][Next]_vars

\* runs that the caller interrupts between stages and resumes by re-executing
\* the notebook, every artifact left in place
NextResume ==
    \/ ImportCell
    \/ SeedCell
    \/ CompactCell
    \/ LoadCompactCell
    \/ SampleCell
    \/ LoadSampleCell
    \/ MetadataCell
    \/ LoadMetaCell
    \/ DropnaCell
    \/ Stop
    \/ Restart

SpecResume == Init /\ [][NextResume]_vars

\* the compaction loop is cut short from outside (the kernel is interrupted or
\* killed, the disk fills) after k whole chunks were appended and before the
\* last chunk is
CompactCrash ==
    /\ pc = "compact"
    /\ ~CompactExists
    /\ \E k \in 1..((Len(kcore_5_json) - 1) \div CHUNK_SIZE) :
          LET out == Compactor(SubSeq(kcore_5_json, 1, k * CHUNK_SIZE), CHUNK_SIZE,
                               compact_csv)
          IN  /\ out.err = ""
              /\ compact_csv' = out.file
    /\ ran' = ran \cup {"compact"}
    /\ rng' = RngAfterCompaction(rng)
    /\ Raise("KeyboardInterrupt")
    /\ UNCHANGED <<inputs, sample_csv, metadata_csv, kcore_5_compact, cohort,
                   kcore_5_compact_sample, meta, finished, history>>

\* runs whose compaction may be cut short, re-executed with or without the
\* compacted artifact deleted first
NextCrash ==
    \/ ImportCell
    \/ SeedCell
    \/ CompactCell
    \/ CompactCrash
    \/ LoadCompactCell
    \/ SampleCell
    \/ LoadSampleCell
    \/ MetadataCell
    \/ LoadMetaCell
    \/ DropnaCell
    \/ Restart
    \/ DeleteCompact

SpecCrash == Init /\ [][NextCrash]_vars

-----------------------------------------------------------------------------
(* Vocabulary of the properties *)

Stages == {"compact", "sample", "metadata", "dropna"}

UsersOf(rows) == {rows[i].reviewerID : i \in 1..Len(rows)}
ProductsOf(rows) == {rows[i].asin : i \in 1..Len(rows)}

IsInjective(q) == \A i, j \in 1..Len(q) : q[i] = q[j] => i = j

\* the positions of the rows of `rows` that a reviewer of `users` wrote
PositionsOf(rows, users) == {i \in 1..Len(rows) : rows[i].reviewerID \in users}

\* sub is the subsequence of rows at the positions in keep, in order
IsSubsequenceAt(sub, rows, keep) ==
    /\ Len(sub) = Cardinality(keep)
    /\ \A i \in keep : sub[Cardinality({j \in keep : j <= i})] = rows[i]

\* the metadata row the extract holds for a corpus record: its five fields, a
\* missing one as the empty field
ProjectionOf(line) == [f \in Range(MetaColumns) |-> IF line[f] = Absent THEN "" ELSE line[f]]

-----------------------------------------------------------------------------
(* C1: two executions of the sampling body that read the same compacted      *)
(* corpus, under the same seed, draw the same cohort, whether the run        *)
(* executed the compaction body or skipped it.                               *)
C1_SamplerDeterministic ==
    \A d1, d2 \in draws :
        d1.corpus = d2.corpus => Range(d1.cohort) = Range(d2.cohort)

C1_Witness ==
    \E d1, d2 \in draws :
        /\ d1.corpus = d2.corpus
        /\ d1.compacted /\ ~d2.compacted
        /\ Cardinality(UsersOf(d1.corpus)) > Len(d1.cohort)

(* C2: when the compacted corpus has at least USER_SAMPLES distinct users    *)
(* and the sampling body executes, the cohort is exactly USER_SAMPLES        *)
(* pairwise distinct users of the compacted corpus.                          *)
C2_CohortSize ==
    ("sample" \in ran /\ Cardinality(UsersOf(compact_csv.rows)) >= USER_SAMPLES) =>
        /\ Len(cohort) = USER_SAMPLES
        /\ IsInjective(cohort)
        /\ Range(cohort) \subseteq UsersOf(compact_csv.rows)

C2_Witness ==
    /\ "sample" \in ran
    /\ USER_SAMPLES >= 2
    /\ Cardinality(UsersOf(compact_csv.rows)) > USER_SAMPLES
    /\ Len(cohort) = USER_SAMPLES

(* C3: when the compacted corpus has fewer than USER_SAMPLES distinct users, *)
(* the sampling body ends in an error, the sampled-review artifact does not  *)
(* exist afterwards and no later stage writes in that run.                   *)
C3_InsufficientPopulation ==
    ("sample" \in ran /\ Cardinality(UsersOf(compact_csv.rows)) < USER_SAMPLES) =>
        /\ pc = "error"
        /\ err = "ValueError"
        /\ ~sample_csv.exists
        /\ ran \cap {"metadata", "dropna"} = {}

C3_Witness ==
    /\ "sample" \in ran
    /\ Cardinality(UsersOf(compact_csv.rows)) < USER_SAMPLES
    /\ pc = "error"
    /\ compact_csv.exists

(* C4: after ReviewFilter executes, the sampled-review artifact is the       *)
(* subsequence of the compacted rows written by a cohort member, in order    *)
(* and with duplicates kept, and its distinct users are exactly the cohort.  *)
C4_ReviewFilterExact ==
    "sample" \in finished =>
        /\ sample_csv.exists
        /\ IsSubsequenceAt(sample_csv.rows, compact_csv.rows,
                           PositionsOf(compact_csv.rows, Range(cohort)))
        /\ UsersOf(sample_csv.rows) = Range(cohort)

C4_Witness ==
    /\ "sample" \in finished
    /\ Len(sample_csv.rows) > Len(cohort)
    /\ Len(sample_csv.rows) < Len(compact_csv.rows)

(* C5: after a complete run, every record of the metadata extract has a      *)
(* product of the sampled reviews and non-null categories and title.         *)
C5_FinalMetadataSound ==
    pc = "done" =>
        \A i \in 1..Len(metadata_csv.rows) :
            /\ metadata_csv.rows[i].asin \in ProductsOf(sample_csv.rows)
            /\ metadata_csv.rows[i].categories \notin NaTokens
            /\ metadata_csv.rows[i].title \notin NaTokens

C5_Witness ==
    /\ pc = "done"
    /\ Stages \subseteq finished
    /\ Len(metadata_csv.rows) >= 1
    /\ \E i \in 1..(CHUNK_SIZE * (Len(metadata_json) \div CHUNK_SIZE)) :
          /\ metadata_json[i].asin \in ProductsOf(sample_csv.rows)
          /\ \/ metadata_json[i].title \in {Absent, "N/A"}
             \/ metadata_json[i].categories = Absent

(* C6: after MetadataJoinFilter completes, the metadata artifact holds, in   *)
(* corpus order, the projection of every corpus record whose product is in   *)
(* the sampled reviews, whatever the corpus length and the chunk size.       *)
C6_MetadataJoinComplete ==
    ("metadata" \in finished /\ pc = "load_meta") =>
        LET keep == {i \in 1..Len(metadata_json) :
                        metadata_json[i].asin \in ProductsOf(sample_csv.rows)}
        IN  /\ Len(metadata_csv.rows) = Cardinality(keep)
            /\ \A i \in keep :
                  metadata_csv.rows[Cardinality({j \in keep : j <= i})]
                      = ProjectionOf(metadata_json[i])

(* C7: for the same corpora, seed and sample count, complete runs from no    *)
(* artifacts under two chunk sizes leave the same three artifacts.           *)
C7_ChunkSizeIrrelevant ==
    (pc = "done" /\ Stages \subseteq finished) =>
        \A size \in 1..MaxChunk :
            FreshRun(size).complete =>
                /\ FreshRun(size).compact = compact_csv
                /\ FreshRun(size).sample = sample_csv
                /\ FreshRun(size).metadata = metadata_csv

(* C8: after the compaction body completes on a corpus without malformed     *)
(* lines, the compacted artifact has one row per review record, in input     *)
(* order, holding the record's reviewerID, asin and overall only.            *)
C8_CompactionExact ==
    ("compact" \in finished /\ \A i \in 1..Len(kcore_5_json) : kcore_5_json[i].valid) =>
        /\ Len(compact_csv.rows) = Len(kcore_5_json)
        /\ \A i \in 1..Len(kcore_5_json) :
              compact_csv.rows[i] = [reviewerID |-> kcore_5_json[i].reviewerID,
                                     asin |-> kcore_5_json[i].asin,
                                     overall |-> kcore_5_json[i].overall]

C8_Witness ==
    /\ "compact" \in finished
    /\ Len(kcore_5_json) > CHUNK_SIZE
    /\ Len(kcore_5_json) % CHUNK_SIZE # 0
    /\ Len(compact_csv.rows) = Len(kcore_5_json)

(* C9: a compacted (sampled) artifact that exists when its stage starts is   *)
(* not written by the stage: no step of a run changes an existing compacted  *)
(* or sampled artifact, and the stage's body does not execute.               *)
C9_SkipIfExists ==
    [][ /\ (compact_csv.exists /\ pc # "import") => compact_csv' = compact_csv
        /\ (sample_csv.exists /\ pc # "import") => sample_csv' = sample_csv
        /\ (compact_csv.exists /\ pc = "compact") => "compact" \notin ran'
        /\ (sample_csv.exists /\ pc = "sample") => "sample" \notin ran' ]_vars

C9_Witness ==
    /\ pc = "metadata"
    /\ metaFinal
    /\ compact_csv.exists /\ Len(compact_csv.rows) >= 2
    /\ sample_csv.exists /\ Len(sample_csv.rows) >= 1
    /\ ran = {}

(* C10: once QualityFilter has written the metadata artifact, running        *)
(* MetadataJoinFilter and QualityFilter again with the artifact in place     *)
(* leaves it identical: no step of a later run changes it.                   *)
C10_MetadataRerunIdentical ==
    [][ (metaFinal /\ pc # "import") => metadata_csv' = metadata_csv ]_vars

C10_Witness ==
    /\ pc = "done"
    /\ metaFinal
    /\ "metadata" \notin ran
    /\ "compact" \notin ran
    /\ "dropna" \in finished
    /\ Len(metadata_csv.rows) >= 1
    /\ Len(metadata_csv.rows) < Len(metadata_json)

(* C11: QualityFilter replaces the metadata artifact with exactly its        *)
(* records whose categories and title are both non-null (not the empty       *)
(* field), in their order and unchanged.                                     *)
C11_QualityFilterExact ==
    [][ pc = "dropna" =>
          metadata_csv'.rows =
              SelectSeq(metadata_csv.rows,
                        LAMBDA row : row.categories # "" /\ row.title # "") ]_vars

(* C12: when an uninterrupted run from no artifacts completes, a run that is *)
(* stopped at stage boundaries and resumed by re-executing the whole         *)
(* notebook, artifacts left in place, ends with the same three artifacts.    *)
C12_ResumeIdentical ==
    (pc = "done" /\ FreshRun(CHUNK_SIZE).complete) =>
        /\ compact_csv = FreshRun(CHUNK_SIZE).compact
        /\ sample_csv = FreshRun(CHUNK_SIZE).sample
        /\ metadata_csv = FreshRun(CHUNK_SIZE).metadata

C12_Witness ==
    /\ pc = "done"
    /\ FreshRun(CHUNK_SIZE).complete
    /\ ran = {"metadata", "dropna"}
    /\ Len(sample_csv.rows) >= 1
    /\ Len(metadata_csv.rows) >= 1

\* the index of the first line of the metadata corpus that does not parse
FirstInvalid == CHOOSE b \in 1..Len(metadata_json) :
                    /\ ~metadata_json[b].valid
                    /\ \A i \in 1..(b - 1) : metadata_json[i].valid

\* the number of lines in the whole chunks that precede line b
LinesBeforeChunkOf(b) == CHUNK_SIZE * ((b - 1) \div CHUNK_SIZE)

(* C13: when MetadataJoinFilter fails parsing a line of the k-th chunk, the  *)
(* metadata artifact holds exactly the projections of the records of chunks  *)
(* 1..k-1 whose product is in the sampled reviews, in corpus order, and      *)
(* nothing of chunk k.                                                       *)
C13_ParseFailureKeepsWholeChunks ==
    (pc = "error" /\ err = "SyntaxError") =>
        LET n == LinesBeforeChunkOf(FirstInvalid)
            keep == {i \in 1..n : metadata_json[i].asin \in ProductsOf(sample_csv.rows)}
        IN  /\ Len(metadata_csv.rows) = Cardinality(keep)
            /\ \A i \in keep :
                  metadata_csv.rows[Cardinality({j \in keep : j <= i})]
                      = ProjectionOf(metadata_json[i])

C13_Witness ==
    /\ pc = "error" /\ err = "SyntaxError"
    /\ "metadata" \in ran
    /\ CHUNK_SIZE >= 2
    /\ FirstInvalid > CHUNK_SIZE
    /\ Len(metadata_csv.rows) >= 1
    /\ Len(metadata_csv.rows) < LinesBeforeChunkOf(FirstInvalid)

\* the compacted artifact exists and lacks rows of the corpus
Truncated == compact_csv.exists /\ Len(compact_csv.rows) < Len(kcore_5_json)

(* C14: a compacted artifact that a failed compaction left truncated stays   *)
(* as it is through every step of a re-run, which skips the compaction body; *)
(* it changes only by the caller deleting it, and a compaction body that     *)
(* then runs to its end on a well-formed corpus leaves the full compacted    *)
(* corpus.                                                                   *)
C14_TruncatedStaysUntilDeleted ==
    [][ /\ (Truncated /\ pc # "import") => compact_csv' = compact_csv
        /\ (Truncated /\ pc = "compact") => (pc' = "load_compact" /\ "compact" \notin ran')
        /\ (Truncated /\ compact_csv' # compact_csv) => compact_csv' = NoFile
        /\ (pc = "compact" /\ "compact" \in finished'
               /\ \A i \in 1..Len(kcore_5_json) : kcore_5_json[i].valid) =>
              /\ ~compact_csv.exists
              /\ compact_csv'.rows = CompactRows(kcore_5_json) ]_vars

C14_Witness ==
    /\ \A i \in 1..Len(kcore_5_json) : kcore_5_json[i].valid
    /\ \E d \in draws : ~d.compacted /\ d.corpus # <<>> /\ Len(d.corpus) < Len(kcore_5_json)
    /\ "compact" \in finished
    /\ compact_csv.rows = CompactRows(kcore_5_json)

(* C15: projection never fails for a missing source field: a compaction     *)
(* body over a well-formed reviews corpus and a metadata body over a         *)
(* well-formed metadata corpus run to their end, no KeyError being raised,   *)
(* even when a field is absent from every record of a batch.                 *)
C15_ProjectionNeverFails ==
    /\ err # "KeyError"
    /\ ("compact" \in ran /\ \A i \in 1..Len(kcore_5_json) : kcore_5_json[i].valid) =>
          "compact" \in finished
    /\ ("metadata" \in ran /\ \A i \in 1..Len(metadata_json) : metadata_json[i].valid) =>
          "metadata" \in finished

====
